---- MODULE Spec2Model ----
(***************************************************************************)
(* A model of the segment map: an unbalanced binary search tree whose keys *)
(* are half-open segments [lower, upper), with plain insert, range remove  *)
(* and range update (update / update_entry), point lookup and in-order     *)
(* iteration with an explicit stack.                                       *)
(***************************************************************************)
EXTENDS FiniteSets, Integers, Sequences, TLC

\* ------------------------------------------------------------------ bounds
MaxKey == 3
MaxValue == 1
MaxNodes == 3

Keys == 0..MaxKey
Values == 0..MaxValue

\* ------------------------------------------------------------ Option<T>
None == [some |-> FALSE]
Some(x) == [some |-> TRUE, v |-> x]

OptValues == {None} \cup {Some(x) : x \in Values}

\* ------------------------------------------------------------ Segment<K>
Segment(l, u) == [lower |-> l, upper |-> u]

\* the argument segments of the calls: lower <= upper, zero width allowed
Segments == {s \in {Segment(l, u) : l \in Keys, u \in Keys} : s.lower <= s.upper}

contains(s, k) == (s.lower <= k) /\ (k < s.upper)

encloses(s, other) == (s.lower <= other.lower) /\ (other.upper <= s.upper)

is_connected(s, other) == (s.lower <= other.upper) /\ (other.lower <= s.upper)

is_empty(s) == s.lower = s.upper

\* intersection as it would be if segments that merely touch had none
intersection_strict(s, other) ==
    IF (s.lower < other.upper) /\ (other.lower < s.upper)
    THEN Some(Segment(IF s.lower < other.lower THEN other.lower ELSE s.lower,
                      IF other.upper < s.upper THEN other.upper ELSE s.upper))
    ELSE None

intersection(s, other) ==
    IF is_connected(s, other)
    THEN Some(Segment(IF s.lower < other.lower THEN other.lower ELSE s.lower,
                      IF other.upper < s.upper THEN other.upper ELSE s.upper))
    ELSE None

\* ------------------------------------------------- SegmentMapNode<K, V>
new(segment, value, left, right) ==
    [segment |-> segment, value |-> value, left |-> left, right |-> right]

RECURSIVE min_node(_)
min_node(self) ==
    IF self.left.some THEN min_node(self.left.v) ELSE self

min_key(self) == min_node(self).segment.lower

RECURSIVE max_node(_)
max_node(self) ==
    IF self.right.some THEN max_node(self.right.v) ELSE self

max_key(self) == max_node(self).segment.upper

span(self) == Segment(min_key(self), max_key(self))

\* returns <<the remainder (an Option), the minimum node>>
RECURSIVE remove_min_node(_)
remove_min_node(self) ==
    IF self.left.some
    THEN LET r == remove_min_node(self.left.v)
         IN  <<Some([self EXCEPT !.left = r[1]]), r[2]>>
    ELSE <<None, self>>

RECURSIVE get_entry(_, _)
get_entry(self, key) ==
    IF contains(self.segment, key)
    THEN Some(<<self.segment, self.value>>)
    ELSE IF key < self.segment.lower
    THEN IF self.left.some THEN get_entry(self.left.v, key) ELSE None
    ELSE IF self.right.some THEN get_entry(self.right.v, key) ELSE None

get(self, key) ==
    LET e == get_entry(self, key) IN IF e.some THEN Some(e.v[2]) ELSE None

\* insert as it would be if the duplicate case wrote the value before panicking
RECURSIVE insert_overwrites(_, _, _)
insert_overwrites(self, segment, value) ==
    IF (segment.lower = self.segment.lower) /\ (segment.upper = self.segment.upper)
    THEN [node |-> [self EXCEPT !.value = value], panicked |-> TRUE]
    ELSE IF segment.upper <= self.segment.lower
    THEN IF self.left.some
         THEN LET r == insert_overwrites(self.left.v, segment, value)
              IN  [node |-> [self EXCEPT !.left = Some(r.node)], panicked |-> r.panicked]
         ELSE [node |-> [self EXCEPT !.left = Some(new(segment, value, None, None))],
               panicked |-> FALSE]
    ELSE IF segment.lower >= self.segment.upper
    THEN IF self.right.some
         THEN LET r == insert_overwrites(self.right.v, segment, value)
              IN  [node |-> [self EXCEPT !.right = Some(r.node)], panicked |-> r.panicked]
         ELSE [node |-> [self EXCEPT !.right = Some(new(segment, value, None, None))],
               panicked |-> FALSE]
    ELSE [node |-> self, panicked |-> TRUE]

\* insert as it would be if "set new left" set the right child
RECURSIVE insert_swapped(_, _, _)
insert_swapped(self, segment, value) ==
    IF (segment.lower = self.segment.lower) /\ (segment.upper = self.segment.upper)
    THEN [node |-> self, panicked |-> TRUE]
    ELSE IF segment.upper <= self.segment.lower
    THEN IF self.left.some
         THEN LET r == insert_swapped(self.left.v, segment, value)
              IN  [node |-> [self EXCEPT !.left = Some(r.node)], panicked |-> r.panicked]
         ELSE [node |-> [self EXCEPT !.right = Some(new(segment, value, None, None))],
               panicked |-> FALSE]
    ELSE IF segment.lower >= self.segment.upper
    THEN IF self.right.some
         THEN LET r == insert_swapped(self.right.v, segment, value)
              IN  [node |-> [self EXCEPT !.right = Some(r.node)], panicked |-> r.panicked]
         ELSE [node |-> [self EXCEPT !.right = Some(new(segment, value, None, None))],
               panicked |-> FALSE]
    ELSE [node |-> self, panicked |-> TRUE]

\* insert mutates the node in place and may panic ("segments must not
\* overlap"): the result is the node as the call leaves it, and whether the
\* call panicked.
RECURSIVE insert(_, _, _)
insert(self, segment, value) ==
    IF (segment.lower = self.segment.lower) /\ (segment.upper = self.segment.upper)
    THEN [node |-> self, panicked |-> TRUE]
    ELSE IF segment.upper <= self.segment.lower
    THEN IF self.left.some
         THEN LET r == insert(self.left.v, segment, value)
              IN  [node |-> [self EXCEPT !.left = Some(r.node)], panicked |-> r.panicked]
         ELSE [node |-> [self EXCEPT !.left = Some(new(segment, value, None, None))],
               panicked |-> FALSE]
    ELSE IF segment.lower >= self.segment.upper
    THEN IF self.right.some
         THEN LET r == insert(self.right.v, segment, value)
              IN  [node |-> [self EXCEPT !.right = Some(r.node)], panicked |-> r.panicked]
         ELSE [node |-> [self EXCEPT !.right = Some(new(segment, value, None, None))],
               panicked |-> FALSE]
    ELSE [node |-> self, panicked |-> TRUE]

\* the result of a call that may panic: what it returns, and whether it panicked
Returned(result) == [result |-> result, panicked |-> FALSE]
Panicked == [result |-> None, panicked |-> TRUE]

\* "remove self": the node's subtrees joined without the node itself
excise(self) ==
    IF self.left.some /\ self.right.some
    THEN LET r == remove_min_node(self.right.v)
         IN  Some([r[2] EXCEPT !.right = r[1], !.left = Some(self.left.v)])
    ELSE IF self.left.some THEN Some(self.left.v)
    ELSE IF self.right.some THEN Some(self.right.v)
    ELSE None

\* "if result exists, do plain insert; otherwise, this is the new result"
insert_into(result, segment, value) ==
    IF result.some
    THEN LET r == insert(result.v, segment, value)
         IN  IF r.panicked THEN Panicked ELSE Returned(Some(r.node))
    ELSE Returned(Some(new(segment, value, None, None)))

then_insert(r, segment, value) ==
    IF r.panicked THEN r ELSE insert_into(r.result, segment, value)

RECURSIVE remove(_, _)

\* "if left exists, recurse; otherwise, nothing to remove"
remove_left(self, segment) ==
    IF self.left.some
    THEN LET r == remove(self.left.v, segment)
         IN  IF r.panicked THEN Panicked
             ELSE Returned(Some([self EXCEPT !.left = r.result]))
    ELSE Returned(Some(self))

remove_right(self, segment) ==
    IF self.right.some
    THEN LET r == remove(self.right.v, segment)
         IN  IF r.panicked THEN Panicked
             ELSE Returned(Some([self EXCEPT !.right = r.result]))
    ELSE Returned(Some(self))

\* "if result exists, do plain remove; otherwise, nothing to remove"
then_remove(r, segment) ==
    IF r.panicked THEN r
    ELSE IF r.result.some THEN remove(r.result.v, segment)
    ELSE Returned(None)

remove(self, segment) ==
    IF is_empty(segment)
    THEN IF encloses(self.segment, segment)
         THEN IF (segment.lower = self.segment.lower) /\ (segment.upper = self.segment.upper)
              THEN Returned(excise(self))
              ELSE IF segment.lower = self.segment.lower
              THEN remove_left(self, segment)
              ELSE IF segment.upper = self.segment.upper
              THEN remove_right(self, segment)
              ELSE LET r0 == Returned(excise(self))
                       r1 == then_insert(r0, Segment(self.segment.lower, segment.lower), self.value)
                   IN  then_insert(r1, Segment(segment.upper, self.segment.upper), self.value)
         ELSE IF segment.upper < self.segment.lower
         THEN remove_left(self, segment)
         ELSE remove_right(self, segment)
    ELSE IF intersection(segment, self.segment).some
    THEN LET i == intersection(segment, self.segment).v
         IN  IF is_empty(i)
             THEN IF segment.lower = self.segment.upper
                  THEN remove_right(self, segment)
                  ELSE remove_left(self, segment)
             ELSE LET r0 == Returned(excise(self))
                      r1 == IF segment.lower < i.lower
                            THEN then_remove(r0, Segment(segment.lower, i.lower))
                            ELSE IF self.segment.lower < i.lower
                            THEN then_insert(r0, Segment(self.segment.lower, i.lower), self.value)
                            ELSE r0
                  IN  IF segment.upper > i.upper
                      THEN then_remove(r1, Segment(i.upper, segment.upper))
                      ELSE IF self.segment.upper > i.upper
                      THEN then_insert(r1, Segment(i.upper, self.segment.upper), self.value)
                      ELSE r1
    ELSE IF segment.lower > self.segment.upper
    THEN remove_right(self, segment)
    ELSE remove_left(self, segment)

\* ------------------------------------------------------- update functions
\* update takes F: Fn(Option<V>) -> Option<V>: erase, overwrite, transform
\* what is there, fill what is not
ValueFns ==
    {[ov \in OptValues |-> None],
     [ov \in OptValues |-> Some(1)],
     [ov \in OptValues |-> IF ov.some THEN Some((ov.v + 1) % (MaxValue + 1)) ELSE None],
     [ov \in OptValues |-> IF ov.some THEN ov ELSE Some(0)]}

\* update_entry takes F: Fn(&Segment<K>, Option<V>) -> Option<V>;
\* by_value(value) is the closure |_, v| value(v) that update builds
by_value(value) == [kind |-> "by_value", value |-> value]

EntryFns == {[kind |-> "lower_parity"], [kind |-> "non_empty_only"]}

call(f, segment, ov) ==
    CASE f.kind = "by_value" -> f.value[ov]
      [] f.kind = "lower_parity" -> Some(segment.lower % (MaxValue + 1))
      [] f.kind = "non_empty_only" -> IF is_empty(segment) THEN None ELSE Some(0)

\* the result of an update_entry call: what it returns, whether it panicked,
\* and the calls it made to the update function, in order
Updated(result, calls) == [result |-> result, panicked |-> FALSE, calls |-> calls]

\* "if result exists, do plain insert; otherwise, this is the new result"
then_insert_u(r, segment, value) ==
    IF r.panicked THEN r
    ELSE LET i == insert_into(r.result, segment, value)
         IN  [result |-> i.result, panicked |-> i.panicked, calls |-> r.calls]

\* "if update produces a value, reinsert"
then_call_insert(r, f, segment, ov) ==
    IF r.panicked THEN r
    ELSE LET nv == call(f, segment, ov)
             r1 == [r EXCEPT !.calls = Append(r.calls, <<segment, ov>>)]
         IN  IF nv.some THEN then_insert_u(r1, segment, nv.v) ELSE r1

RECURSIVE update_entry(_, _, _)

\* update_left as it would be if, as in remove, a missing left child meant
\* "nothing to do"
update_left_drops(self, segment, f) ==
    IF self.left.some
    THEN LET r == update_entry(self.left.v, segment, f)
         IN  IF r.panicked THEN r
             ELSE [r EXCEPT !.result = Some([self EXCEPT !.left = r.result])]
    ELSE Updated(Some(self), << <<segment, None>> >>)

\* "if left exists, recurse; otherwise, if update produces a value, this is
\* the new left"
update_left(self, segment, f) ==
    IF self.left.some
    THEN LET r == update_entry(self.left.v, segment, f)
         IN  IF r.panicked THEN r
             ELSE [r EXCEPT !.result = Some([self EXCEPT !.left = r.result])]
    ELSE LET nv == call(f, segment, None)
         IN  Updated(Some(IF nv.some
                          THEN [self EXCEPT !.left = Some(new(segment, nv.v, None, None))]
                          ELSE self),
                     << <<segment, None>> >>)

update_right(self, segment, f) ==
    IF self.right.some
    THEN LET r == update_entry(self.right.v, segment, f)
         IN  IF r.panicked THEN r
             ELSE [r EXCEPT !.result = Some([self EXCEPT !.right = r.result])]
    ELSE LET nv == call(f, segment, None)
         IN  Updated(Some(IF nv.some
                          THEN [self EXCEPT !.right = Some(new(segment, nv.v, None, None))]
                          ELSE self),
                     << <<segment, None>> >>)

\* then_update as it would be if the rest of the target segment were left alone
then_update_skips(r, segment, f) == r

\* "if result exists, do plain update; otherwise, if update produces a
\* value, this is the new result; otherwise, no result"
then_update(r, segment, f) ==
    IF r.panicked THEN r
    ELSE IF r.result.some
    THEN LET u == update_entry(r.result.v, segment, f)
         IN  [u EXCEPT !.calls = r.calls \o u.calls]
    ELSE LET nv == call(f, segment, None)
         IN  Updated(IF nv.some THEN Some(new(segment, nv.v, None, None)) ELSE None,
                     Append(r.calls, <<segment, None>>))

update_entry(self, segment, f) ==
    IF is_empty(segment)
    THEN IF encloses(self.segment, segment)
         THEN IF (segment.lower = self.segment.lower) /\ (segment.upper = self.segment.upper)
              THEN then_call_insert(Updated(excise(self), << >>), f, segment, Some(self.value))
              ELSE IF segment.lower = self.segment.lower
              THEN update_left(self, segment, f)
              ELSE IF segment.upper = self.segment.upper
              THEN update_right(self, segment, f)
              ELSE LET r0 == Updated(excise(self), << >>)
                       r1 == then_call_insert(r0, f, segment, Some(self.value))
                       r2 == then_insert_u(r1, Segment(self.segment.lower, segment.lower), self.value)
                   IN  then_insert_u(r2, Segment(segment.upper, self.segment.upper), self.value)
         ELSE IF segment.upper < self.segment.lower
         THEN update_left(self, segment, f)
         ELSE update_right(self, segment, f)
    ELSE IF intersection(segment, self.segment).some
    THEN LET i == intersection(segment, self.segment).v
         IN  IF is_empty(i)
             THEN IF segment.lower = self.segment.upper
                  THEN update_right(self, segment, f)
                  ELSE update_left(self, segment, f)
             ELSE LET r0 == Updated(excise(self), << >>)
                      r1 == then_call_insert(r0, f, i, Some(self.value))
                      r2 == IF segment.lower < i.lower
                            THEN then_update(r1, Segment(segment.lower, i.lower), f)
                            ELSE IF self.segment.lower < i.lower
                            THEN then_insert_u(r1, Segment(self.segment.lower, i.lower), self.value)
                            ELSE r1
                  IN  IF segment.upper > i.upper
                      THEN then_update(r2, Segment(i.upper, segment.upper), f)
                      ELSE IF self.segment.upper > i.upper
                      THEN then_insert_u(r2, Segment(i.upper, self.segment.upper), self.value)
                      ELSE r2
    ELSE IF segment.lower > self.segment.upper
    THEN update_right(self, segment, f)
    ELSE update_left(self, segment, f)

update(self, segment, value) == update_entry(self, segment, by_value(value))

\* --------------------------------------------------------------- iterators
\* the state of an Iter / IntoIter: the current subtree and the stack of
\* (segment, value, right subtree) still to visit
Iterator(current, stack) == [current |-> current, stack |-> stack]

\* "while let Some(current) = self.current.take() { push; go left }"
RECURSIVE iter_descend(_, _)
iter_descend(current, stack) ==
    IF current.some
    THEN iter_descend(current.v.left,
                      Append(stack, <<current.v.segment, current.v.value, current.v.right>>))
    ELSE stack

\* Iter::next: the iterator after the call and the item returned
iter_next(self) ==
    LET stack == iter_descend(self.current, self.stack)
    IN  IF Len(stack) > 0
        THEN LET top == stack[Len(stack)]
             IN  [self |-> Iterator(top[3], SubSeq(stack, 1, Len(stack) - 1)),
                  item |-> Some(<<top[1], top[2]>>)]
        ELSE [self |-> Iterator(None, stack), item |-> None]

RECURSIVE into_iter_descend(_, _)
into_iter_descend(current, stack) ==
    IF current.some
    THEN into_iter_descend(current.v.left,
                           Append(stack, <<current.v.segment, current.v.value, current.v.right>>))
    ELSE stack

\* IntoIter::next as it would be if it took the oldest stack entry, not the newest
into_iter_next_fifo(self) ==
    LET stack == into_iter_descend(self.current, self.stack)
    IN  IF Len(stack) > 0
        THEN LET top == stack[1]
             IN  [self |-> Iterator(top[3], SubSeq(stack, 2, Len(stack))),
                  item |-> Some(<<top[1], top[2]>>)]
        ELSE [self |-> Iterator(None, stack), item |-> None]

\* IntoIter::next
into_iter_next(self) ==
    LET stack == into_iter_descend(self.current, self.stack)
    IN  IF Len(stack) > 0
        THEN LET top == stack[Len(stack)]
             IN  [self |-> Iterator(top[3], SubSeq(stack, 1, Len(stack) - 1)),
                  item |-> Some(<<top[1], top[2]>>)]
        ELSE [self |-> Iterator(None, stack), item |-> None]

\* ------------------------------------------------------------- the program
VARIABLES
    root,   \* IntervalMap.root: Option<node>
    prev,   \* the root before the call the caller is looking at
    op,     \* the call the caller is looking at: name, arguments, outcome
    it,     \* the live iterator over the map, if any
    out     \* the items the live iterator has yielded so far

vars == <<root, prev, op, it, out>>

RECURSIVE Size(_)
Size(t) == IF t.some THEN 1 + Size(t.v.left) + Size(t.v.right) ELSE 0

NoCall == [name |-> "none", panicked |-> FALSE]

\* a panic is fatal: nothing runs after it
Running == ~op.panicked

\* the caller makes one call at a time, and a live Iter borrows the map, so
\* no call mutates it meanwhile
Idle == op = NoCall /\ ~it.some

\* IntervalMap::new
Init ==
    /\ root = None
    /\ prev = None
    /\ op = NoCall
    /\ it = None
    /\ out = << >>

\* IntervalMap::insert
Insert(interval, value) ==
    /\ Idle
    /\ LET r == IF root.some
                THEN insert(root.v, interval, value)
                ELSE [node |-> new(interval, value, None, None), panicked |-> FALSE]
       IN  /\ root' = Some(r.node)
           /\ op' = [name |-> "insert", segment |-> interval, value |-> value,
                     panicked |-> r.panicked]
    /\ prev' = root
    /\ Size(root') <= MaxNodes
    /\ UNCHANGED <<it, out>>

\* IntervalMap::remove: "if let Some(root) = self.root.take() { self.root = root.remove(interval) }"
map_remove(t, interval) ==
    IF t.some THEN remove(t.v, interval) ELSE Returned(None)

RemoveCall(interval) ==
    /\ Idle
    /\ LET r == map_remove(root, interval)
       IN  /\ root' = r.result
           /\ op' = [name |-> "remove", segment |-> interval, panicked |-> r.panicked]
    /\ prev' = root
    /\ UNCHANGED <<it, out>>

\* the call, on a map that stays within MaxNodes
Remove(interval) ==
    /\ RemoveCall(interval)
    /\ Size(root') <= MaxNodes

\* the empty-map branch as it would be if the value the function produces
\* were not inserted
update_empty_discards(interval, f) == Updated(None, << <<interval, None>> >>)

\* the empty-map branch of IntervalMap::update and IntervalMap::update_entry:
\* "else if let Some(value) = value(..., None) { self.insert(interval.clone(), value) }"
update_empty(interval, f) ==
    LET nv == call(f, interval, None)
    IN  Updated(IF nv.some THEN Some(new(interval, nv.v, None, None)) ELSE None,
                << <<interval, None>> >>)

\* IntervalMap::update
UpdateCall(interval, value) ==
    /\ Idle
    /\ LET r == IF root.some
                THEN update(root.v, interval, value)
                ELSE update_empty(interval, by_value(value))
       IN  /\ root' = r.result
           /\ op' = [name |-> "update", segment |-> interval, f |-> by_value(value),
                     calls |-> r.calls, panicked |-> r.panicked]
    /\ prev' = root
    /\ UNCHANGED <<it, out>>

\* the call, on a map that stays within MaxNodes
Update(interval, value) ==
    /\ UpdateCall(interval, value)
    /\ Size(root') <= MaxNodes

\* IntervalMap::update_entry
UpdateEntryCall(interval, f) ==
    /\ Idle
    /\ LET r == IF root.some
                THEN update_entry(root.v, interval, f)
                ELSE update_empty(interval, f)
       IN  /\ root' = r.result
           /\ op' = [name |-> "update_entry", segment |-> interval, f |-> f,
                     calls |-> r.calls, panicked |-> r.panicked]
    /\ prev' = root
    /\ UNCHANGED <<it, out>>

\* the call, on a map that stays within MaxNodes
UpdateEntry(interval, f) ==
    /\ UpdateEntryCall(interval, f)
    /\ Size(root') <= MaxNodes

\* IntervalMap::get_entry, get and contains_key
map_get_entry(r, key) == IF r.some THEN get_entry(r.v, key) ELSE None

map_get(r, key) == IF r.some THEN get(r.v, key) ELSE None

contains_key(r, key) == map_get_entry(r, key).some

Get(key) ==
    /\ Idle
    /\ op' = [name |-> "get", key |-> key, entry |-> map_get_entry(root, key),
              result |-> map_get(root, key), contains |-> contains_key(root, key),
              panicked |-> FALSE]
    /\ prev' = root
    /\ UNCHANGED <<root, it, out>>

\* the caller has seen the outcome of its call and goes on to the next one
Settle ==
    /\ Running
    /\ ~it.some
    /\ op # NoCall
    /\ op' = NoCall
    /\ prev' = root
    /\ UNCHANGED <<root, it, out>>

\* IntervalMap::iter
Iter ==
    /\ Idle
    /\ it' = Some([kind |-> "iter", state |-> Iterator(root, << >>)])
    /\ out' = << >>
    /\ op' = [name |-> "iter", panicked |-> FALSE]
    /\ UNCHANGED <<root, prev>>

\* IntoIterator::into_iter: the map is moved into the iterator
IntoIter ==
    /\ Idle
    /\ it' = Some([kind |-> "into_iter", state |-> Iterator(root, << >>)])
    /\ out' = << >>
    /\ op' = [name |-> "into_iter", panicked |-> FALSE]
    /\ prev' = root
    /\ root' = None

\* Iter::next / IntoIter::next on the live iterator
IterNext ==
    /\ it.some
    /\ LET r == IF it.v.kind = "iter" THEN iter_next(it.v.state)
                                      ELSE into_iter_next(it.v.state)
       IN  /\ it' = Some([it.v EXCEPT !.state = r.self])
           /\ out' = IF r.item.some THEN Append(out, r.item.v) ELSE out
           /\ op' = [name |-> "next", item |-> r.item, panicked |-> FALSE]
    /\ UNCHANGED <<root, prev>>

\* the iterator is dropped; the map can be used again
IterDrop ==
    /\ it.some
    /\ it' = None
    /\ out' = << >>
    /\ op' = NoCall
    /\ prev' = root
    /\ UNCHANGED root

Next ==
    \/ \E s \in Segments, v \in Values : Insert(s, v)
    \/ \E s \in Segments : Remove(s)
    \/ \E s \in Segments, f \in ValueFns : Update(s, f)
    \/ \E s \in Segments, f \in EntryFns : UpdateEntry(s, f)
    \/ \E k \in Keys : Get(k)
    \/ Settle
    \/ Iter
    \/ IntoIter
    \/ IterNext
    \/ IterDrop

Spec == Init /\ [][Next]_vars

\* a map that is only ever built by inserts, looked up and iterated
NextInserts ==
    \/ \E s \in Segments, v \in Values : Insert(s, v)
    \/ \E k \in Keys : Get(k)
    \/ Settle
    \/ Iter
    \/ IntoIter
    \/ IterNext
    \/ IterDrop

SpecInserts == Init /\ [][NextInserts]_vars

\* ------------------------------------------------------------ observations
\* the (segment, value) pairs stored in a tree
RECURSIVE Stored(_)
Stored(t) ==
    IF t.some
    THEN {<<t.v.segment, t.v.value>>} \cup Stored(t.v.left) \cup Stored(t.v.right)
    ELSE {}

StoredSegments(t) == {e[1] : e \in Stored(t)}

\* map.iter().collect(): the entries in iteration order
RECURSIVE Drain(_, _)
Drain(self, acc) ==
    LET r == iter_next(self)
    IN  IF r.item.some THEN Drain(r.self, Append(acc, r.item.v)) ELSE acc

Entries(t) == Drain(Iterator(t, << >>), << >>)

\* two segments overlap: neither lies wholly at or below the other
Overlaps(a, b) == (a.lower < b.upper) /\ (b.lower < a.upper)

\* two segments overlap with positive width: they share a key
OverlapsPositive(a, b) ==
    (IF a.lower < b.lower THEN b.lower ELSE a.lower) < (IF a.upper < b.upper THEN a.upper ELSE b.upper)

Identical(a, b) == (a.lower = b.lower) /\ (a.upper = b.upper)

RECURSIVE IsBST(_)
IsBST(t) ==
    t.some =>
        /\ \A s \in StoredSegments(t.v.left) : s.upper <= t.v.segment.lower
        /\ \A s \in StoredSegments(t.v.right) : s.lower >= t.v.segment.upper
        /\ IsBST(t.v.left)
        /\ IsBST(t.v.right)

PairwiseDisjoint(t) ==
    LET e == Entries(t)
    IN  \A i \in 1..Len(e) : \A j \in 1..Len(e) :
            i # j => ~OverlapsPositive(e[i][1], e[j][1])

Mutator == op.name \in {"insert", "remove", "update", "update_entry"}

\* ------------------------------------------------------------------ claims
\* C1: after any sequence of accepted insert, remove, update and update_entry
\* calls from the empty map the tree is a BST over pairwise disjoint segments
C1_TreeIsBST == Running => (IsBST(root) /\ PairwiseDisjoint(root))

\* C2: after remove(T) with a non-empty T, get(k) is None for every key k of T
C2_RemoveErases ==
    (op.name = "remove" /\ ~op.panicked /\ ~is_empty(op.segment)) =>
        \A k \in Keys : contains(op.segment, k) => map_get(root, k) = None

\* the keys of prev that some stored segment contains
Covered(t, k) == \E s \in StoredSegments(t) : contains(s, k)

\* the maximal parts of a segment that no stored segment of t covers
Gaps(t, seg) ==
    {g \in Segments :
        /\ seg.lower <= g.lower /\ g.lower < g.upper /\ g.upper <= seg.upper
        /\ \A k \in Keys : contains(g, k) => ~Covered(t, k)
        /\ (g.lower = seg.lower \/ Covered(t, g.lower - 1))
        /\ (g.upper = seg.upper \/ Covered(t, g.upper))}

\* the parts of the stored entries of t outside seg, with their old values
\* (an entry that shares no key with seg is kept whole)
Outside(t, seg) ==
    {e \in Stored(t) : ~OverlapsPositive(e[1], seg)}
    \cup {<<Segment(e[1].lower, seg.lower), e[2]>> :
            e \in {x \in Stored(t) : OverlapsPositive(x[1], seg) /\ x[1].lower < seg.lower}}
    \cup {<<Segment(seg.upper, e[1].upper), e[2]>> :
            e \in {x \in Stored(t) : OverlapsPositive(x[1], seg) /\ seg.upper < x[1].upper}}

\* the intersections of seg with the stored entries of t that share a key with it
Inside(t, seg) ==
    {intersection(seg, s).v : s \in {x \in StoredSegments(t) : OverlapsPositive(x, seg)}}

\* entries in ascending order, none twice
Ascending(e) ==
    \A i \in 1..(Len(e) - 1) :
        \/ e[i][1].lower < e[i + 1][1].lower
        \/ (e[i][1].lower = e[i + 1][1].lower /\ e[i][1].upper < e[i + 1][1].upper)

IsConstSome(f) ==
    /\ f.kind = "by_value"
    /\ f.value[None].some
    /\ \A ov \in OptValues : f.value[ov] = f.value[None]

\* C3: after update(T, |_| Some(v)) with a non-empty T, get(k) is Some(v) for
\* every key of T and unchanged for every key outside T, and the entries are
\* the old entries' parts outside T with their old values, the intersections
\* of T with the old entries with value v and the maximal gaps of T with value
\* v, in ascending order
C3_UpdateSubstitutes ==
    (op.name = "update" /\ ~op.panicked /\ ~is_empty(op.segment) /\ IsConstSome(op.f)) =>
        LET v == op.f.value[None].v
        IN  /\ \A k \in Keys :
                IF contains(op.segment, k)
                THEN map_get(root, k) = Some(v)
                ELSE map_get(root, k) = map_get(prev, k)
            /\ Stored(root) = Outside(prev, op.segment)
                                \cup {<<s, v>> : s \in Inside(prev, op.segment)}
                                \cup {<<s, v>> : s \in Gaps(prev, op.segment)}
            /\ Ascending(Entries(root))

\* C4: remove, update, update_entry and get never panic
C4_Total ==
    op.name \in {"remove", "update", "update_entry", "get"} => ~op.panicked

\* C5: insert panics exactly when its segment is identical to a stored segment
\* or overlaps a stored segment anywhere in the tree
C5_InsertRejectsOverlap ==
    op.name = "insert" =>
        (op.panicked <=>
            \E s \in StoredSegments(prev) : Identical(s, op.segment) \/ Overlaps(s, op.segment))

\* C6: a rejected insert leaves the map exactly as it was
C6_RejectedInsertKeepsMap ==
    (op.name = "insert" /\ op.panicked) => root = prev

\* an insert into a tree of two nodes or more was rejected
C6_Witness ==
    op.name = "insert" /\ op.panicked /\ Size(prev) >= 2

\* C7: after an accepted insert([a,b), v) that overlaps nothing, a key not
\* covered before maps to v exactly when it lies in [a,b), get is unchanged
\* outside [a,b), and every entry stored before is still stored
C7_InsertRoundTrip ==
    (/\ op.name = "insert" /\ ~op.panicked
     /\ \A s \in StoredSegments(prev) : ~Identical(s, op.segment) /\ ~Overlaps(s, op.segment)) =>
        /\ \A k \in Keys :
            /\ ~Covered(prev, k) => (map_get(root, k) = Some(op.value) <=> contains(op.segment, k))
            /\ ~contains(op.segment, k) => map_get(root, k) = map_get(prev, k)
        /\ Stored(prev) \subseteq Stored(root)

\* a non-empty segment that overlaps nothing was inserted into a tree of two
\* nodes or more, between two stored segments
C7_Witness ==
    /\ op.name = "insert" /\ ~op.panicked /\ ~is_empty(op.segment)
    /\ Size(prev) >= 2
    /\ \A s \in StoredSegments(prev) : ~Identical(s, op.segment) /\ ~Overlaps(s, op.segment)
    /\ \E s \in StoredSegments(prev) : s.upper <= op.segment.lower
    /\ \E s \in StoredSegments(prev) : op.segment.upper <= s.lower

\* C8: after inserts only, iteration yields segments whose lower bound is
\* strictly greater than the previous one's and at least the previous upper
C8_IterationStrictlyAscending ==
    \A i \in 1..(Len(out) - 1) :
        /\ out[i + 1][1].lower > out[i][1].lower
        /\ out[i + 1][1].lower >= out[i][1].upper

\* C8 as amended: the lower bound is at least the previous upper bound, and
\* strictly greater than the previous lower bound unless the previous segment
\* is zero-width and this one is not
C8_IterationAscending ==
    \A i \in 1..(Len(out) - 1) :
        /\ out[i + 1][1].lower >= out[i][1].upper
        /\ \/ out[i + 1][1].lower > out[i][1].lower
           \/ is_empty(out[i][1]) /\ ~is_empty(out[i + 1][1])

\* an iteration has yielded three segments, a zero-width one followed by a
\* non-empty one with the same lower bound among them
C8_Witness ==
    /\ Len(out) >= 3
    /\ \E i \in 1..(Len(out) - 1) :
        /\ is_empty(out[i][1])
        /\ out[i + 1][1].lower = out[i][1].lower

\* C9: remove(T) leaves get unchanged outside T, keeps the fragments of the
\* entries it cuts with their values, and keeps the entries it does not overlap
C9_RemoveFrame ==
    (op.name = "remove" /\ ~op.panicked) =>
        /\ \A k \in Keys : ~contains(op.segment, k) => map_get(root, k) = map_get(prev, k)
        /\ \A e \in Stored(prev) :
            IF Overlaps(e[1], op.segment)
            THEN /\ e[1].lower < op.segment.lower =>
                        <<Segment(e[1].lower, op.segment.lower), e[2]>> \in Stored(root)
                 /\ op.segment.upper < e[1].upper =>
                        <<Segment(op.segment.upper, e[1].upper), e[2]>> \in Stored(root)
            ELSE ~Identical(e[1], op.segment) => e \in Stored(root)

\* C10: remove(S) twice yields the same entries as remove(S) once
C10_RemoveIdempotent ==
    (op.name = "remove" /\ ~op.panicked) =>
        LET again == map_remove(root, op.segment)
        IN  ~again.panicked /\ Entries(again.result) = Entries(root)

\* IntervalMap::update_entry (and update, through by_value) as a function of the root
map_update_entry(t, interval, f) ==
    IF t.some THEN update_entry(t.v, interval, f) ELSE update_empty(interval, f)

\* the orders in which the entries of a set can be inserted
Orders(E) ==
    {p \in [1..Cardinality(E) -> E] : \A e \in E : \E i \in 1..Cardinality(E) : p[i] = e}

\* IntervalMap::new followed by one insert per entry of p, in order
RECURSIVE Build(_, _)
Build(p, n) ==
    IF n = 0 THEN [node |-> None, panicked |-> FALSE]
    ELSE LET b == Build(p, n - 1)
         IN  IF b.panicked THEN b
             ELSE IF b.node.some
             THEN LET r == insert(b.node.v, p[n][1], p[n][2])
                  IN  [node |-> Some(r.node), panicked |-> r.panicked]
             ELSE [node |-> Some(new(p[n][1], p[n][2], None, None)), panicked |-> FALSE]

\* the maps that hold exactly the entries E, one per insertion order
Shapes(E) ==
    {Build(p, Cardinality(E)).node :
        p \in {q \in Orders(E) : ~Build(q, Cardinality(E)).panicked}}

\* the call the caller is looking at, made on another map
SameCall(t) ==
    IF op.name = "remove" THEN map_remove(t, op.segment)
    ELSE map_update_entry(t, op.segment, op.f)

\* C11: the entries after remove(T) or update(T, f) do not depend on the tree
\* shape: every map built from the same entries in another insertion order
\* yields the same entry list after the same call
C11_ShapeIndependent ==
    (op.name \in {"remove", "update"} /\ ~op.panicked /\ prev \in Shapes(Stored(prev))) =>
        \A t \in Shapes(Stored(prev)) :
            ~SameCall(t).panicked /\ Entries(SameCall(t).result) = Entries(root)

\* the point p lies inside or at an end of a stored non-empty segment of t
OnStored(t, p) ==
    \E s \in StoredSegments(t) : ~is_empty(s) /\ s.lower <= p /\ p <= s.upper

\* C12: remove([p,p)) leaves the entry list as it was whenever p lies inside
\* or at an end of a stored non-empty segment
C12_EmptyRemoveIsNoOp ==
    (/\ op.name = "remove" /\ ~op.panicked /\ is_empty(op.segment)
     /\ OnStored(prev, op.segment.lower)) =>
        Entries(root) = Entries(prev)

IsConstNone(f) ==
    /\ f.kind = "by_value"
    /\ \A ov \in OptValues : f.value[ov] = None

\* C13: update(S, |_| None) produces the same map, entry for entry, as
\* remove(S) on the same map (and fails where remove fails)
C13_UpdateNoneIsRemove ==
    (op.name = "update" /\ IsConstNone(op.f)) =>
        LET r == map_remove(prev, op.segment)
        IN  /\ op.panicked = r.panicked
            /\ ~op.panicked => Entries(root) = Entries(r.result)

\* update(S, |_| None) with a non-empty S has erased one stored entry and
\* cut another, in a map without zero-width entries
C13_Witness ==
    /\ op.name = "update" /\ IsConstNone(op.f) /\ ~op.panicked
    /\ ~is_empty(op.segment)
    /\ \A s \in StoredSegments(prev) : ~is_empty(s)
    /\ \E s \in StoredSegments(prev) : encloses(op.segment, s)
    /\ \E s \in StoredSegments(prev) : OverlapsPositive(s, op.segment) /\ ~encloses(op.segment, s)
    /\ root.some /\ Stored(root) # Stored(prev)

\* the point p lies in a gap: no stored segment of t has it inside or at an end
InGap(t, p) ==
    \A s \in StoredSegments(t) : p < s.lower \/ s.upper < p

\* C14: update([p,p), |_| Some(v)) leaves the entry list as it was, both when
\* p lies inside or at an end of a stored non-empty segment and when p lies
\* in a gap
C14_EmptyUpdateIsNoOp ==
    (/\ op.name = "update" /\ ~op.panicked /\ is_empty(op.segment) /\ IsConstSome(op.f)
     /\ prev.some
     /\ (OnStored(prev, op.segment.lower) \/ InGap(prev, op.segment.lower))) =>
        Entries(root) = Entries(prev)

\* a list of entries without the entry e
Without(entries, e) == SelectSeq(entries, LAMBDA x : x # e)

C16_UpdateOnEmptyMap ==
    (op.name \in {"update", "update_entry"} /\ ~prev.some) =>
        LET nv == call(op.f, op.segment, None)
        IN  /\ ~op.panicked
            /\ op.calls = << <<op.segment, None>> >>
            /\ root = IF nv.some THEN Some(new(op.segment, nv.v, None, None)) ELSE None

\* update_entry on the empty map has stored its non-empty segment
C16_Witness ==
    /\ op.name = "update_entry" /\ ~prev.some /\ ~is_empty(op.segment)
    /\ Stored(root) = {<<op.segment, call(op.f, op.segment, None).v>>}

\* no key of the non-empty segment g is covered by a stored segment of t
Uncovered(t, g) == \A k \in Keys : contains(g, k) => ~Covered(t, k)

\* C17, first half: update(T, f) with f(None) = None and T overlapping no
\* stored entry leaves the map as it was
C17_NoneKeepsMap ==
    (/\ op.name = "update" /\ op.f.value[None] = None
     /\ \A s \in StoredSegments(prev) : ~Identical(s, op.segment) /\ ~Overlaps(s, op.segment)) =>
        ~op.panicked /\ Entries(root) = Entries(prev)

\* C17, second half: update(T, f) with a non-empty T and f(None) = Some(v)
\* makes exactly the parts of T that no stored entry covers entries with
\* value v
C17_SomeFillsGaps ==
    (op.name = "update" /\ ~op.panicked /\ ~is_empty(op.segment) /\ op.f.value[None].some) =>
        LET v == op.f.value[None].v
        IN  /\ \A g \in Gaps(prev, op.segment) : <<g, v>> \in Stored(root)
            /\ \A e \in Stored(root) :
                (~is_empty(e[1]) /\ encloses(op.segment, e[1]) /\ Uncovered(prev, e[1])) =>
                    (e[1] \in Gaps(prev, op.segment) /\ e[2] = v)

\* C17: update(T, f) applies f(None) to the parts of T that no stored entry
\* covers: nothing changes when f(None) = None and T overlaps no stored
\* entry, and exactly the uncovered parts get value v when f(None) = Some(v)
C17_UpdateFillsUncovered == C17_NoneKeepsMap /\ C17_SomeFillsGaps

\* the calls of a sequence that were made with the segment and value c
CallsWith(calls, c) == {i \in 1..Len(calls) : calls[i] = c}

\* C18: one update_entry(T, f) with a non-empty T calls f once per fragment,
\* with that fragment's segment: the segments passed are pairwise
\* non-overlapping, enclosed by T and cover T; a call carries Some(old) exactly
\* for the intersection of T with one stored entry, old being its value, and
\* None exactly for a part of T that no stored entry covers; no stored value
\* is passed twice
C18_OneCallPerFragment ==
    (op.name \in {"update", "update_entry"} /\ ~op.panicked /\ ~is_empty(op.segment)) =>
        LET calls == op.calls
            T == op.segment
            cut == {e \in Stored(prev) : OverlapsPositive(e[1], T)}
        IN  /\ \A i \in 1..Len(calls) : \A j \in 1..Len(calls) :
                i # j => ~OverlapsPositive(calls[i][1], calls[j][1])
            /\ \A i \in 1..Len(calls) : encloses(T, calls[i][1])
            /\ \A k \in Keys : contains(T, k) =>
                \E i \in 1..Len(calls) : contains(calls[i][1], k)
            /\ \A i \in 1..Len(calls) :
                IF calls[i][2].some
                THEN \E e \in cut : calls[i] = <<intersection(T, e[1]).v, Some(e[2])>>
                ELSE calls[i][1] \in Gaps(prev, T)
            /\ \A e \in cut :
                Cardinality(CallsWith(calls, <<intersection(T, e[1]).v, Some(e[2])>>)) = 1
            /\ \A g \in Gaps(prev, T) : Cardinality(CallsWith(calls, <<g, None>>)) = 1

\* IntervalMap::span: "self.root.as_ref().map(|root| root.span())"
map_span(t) == IF t.some THEN Some(span(t.v)) ELSE None

MinLower(t) == CHOOSE l \in {s.lower : s \in StoredSegments(t)} :
                    \A s \in StoredSegments(t) : l <= s.lower

MaxUpper(t) == CHOOSE u \in {s.upper : s \in StoredSegments(t)} :
                    \A s \in StoredSegments(t) : s.upper <= u

\* C19: on a non-empty map span() is [min of lower over the stored segments,
\* max of upper over the stored segments); on the empty map it is None
C19_Span ==
    Running =>
        map_span(root) = IF root.some THEN Some(Segment(MinLower(root), MaxUpper(root)))
                                      ELSE None

\* C20: get_entry(k) returns (S, v) exactly when a stored entry S -> v has
\* S.lower <= k < S.upper and None when no stored segment contains k; get(k)
\* returns the same value, and contains_key(k) is true exactly when
\* get_entry(k) is Some
C20_PointLookup ==
    op.name = "get" =>
        /\ \A e \in Stored(root) : contains(e[1], op.key) => op.entry = Some(e)
        /\ (~\E e \in Stored(root) : contains(e[1], op.key)) => op.entry = None
        /\ op.result = IF op.entry.some THEN Some(op.entry.v[2]) ELSE None
        /\ op.contains = op.entry.some

\* the entries of a tree, left subtree first, then the node, then the right
\* subtree
RECURSIVE InOrder(_)
InOrder(t) ==
    IF t.some
    THEN InOrder(t.v.left) \o << <<t.v.segment, t.v.value>> >> \o InOrder(t.v.right)
    ELSE << >>

\* C21: iteration is an in-order traversal: it yields every stored entry
\* exactly once, in ascending order of lower bound, then returns None and
\* keeps returning None; it yields as many items as there are nodes
C21_IterationInOrder ==
    it.some =>
        /\ Len(out) <= Size(prev)
        /\ out = SubSeq(InOrder(prev), 1, Len(out))
        /\ \A i \in 1..(Len(out) - 1) : out[i][1].lower <= out[i + 1][1].lower
        /\ (op.name = "next" /\ ~op.item.some) =>
            /\ Len(out) = Size(prev)
            /\ IF it.v.kind = "iter" THEN ~iter_next(it.v.state).item.some
                                     ELSE ~into_iter_next(it.v.state).item.some

\* the points where two non-empty stored segments of t touch
Seams(t) ==
    {a.upper : a \in {s \in StoredSegments(t) :
                        /\ ~is_empty(s)
                        /\ \E b \in StoredSegments(t) : ~is_empty(b) /\ b.lower = s.upper}}

\* the segment s runs across the point x
Crosses(s, x) == s.lower < x /\ x < s.upper

\* C22: no operation coalesces adjacent stored segments, whatever their
\* values: an accepted insert adds one entry and keeps the others; where two
\* stored segments touched, no call leaves an entry that runs across in their
\* place; and update(T, |_| Some(v)) over touching entries leaves one entry per
\* fragment
C22_NeverCoalesced ==
    (Mutator /\ ~op.panicked) =>
        /\ op.name = "insert" =>
            /\ Size(root) = Size(prev) + 1
            /\ Stored(root) = Stored(prev) \cup {<<op.segment, op.value>>}
        /\ \A x \in Seams(prev) :
            (/\ \A s \in StoredSegments(prev) : ~Crosses(s, x)
             /\ \E s \in StoredSegments(root) : Crosses(s, x)) => x \in Seams(root)
        /\ (op.name = "update" /\ IsConstSome(op.f) /\ ~is_empty(op.segment)) =>
            \A x \in Seams(prev) : Crosses(op.segment, x) =>
                \A s \in StoredSegments(prev) :
                    (~is_empty(s) /\ (s.upper = x \/ s.lower = x)) =>
                        intersection(op.segment, s).v \in StoredSegments(root)

\* ------------------------------------------------- Segment constructors
\* the key type is an unsigned integer of KeyBits bits
KeyBits == 3
KeyMax == 2^KeyBits - 1
BoundedKeys == 0..KeyMax

\* "+ K::one()" on a primitive integer: at the maximum the addition panics
\* ("attempt to add with overflow") when the build has overflow checks on and
\* wraps around when it has them off
plus_one(k, overflow_checks) ==
    IF k = KeyMax
    THEN IF overflow_checks THEN [value |-> k, panicked |-> TRUE]
                            ELSE [value |-> (k + 1) % 2^KeyBits, panicked |-> FALSE]
    ELSE [value |-> k + 1, panicked |-> FALSE]

singleton(value, overflow_checks) ==
    LET u == plus_one(value, overflow_checks)
    IN  IF u.panicked THEN Panicked ELSE Returned(Some(Segment(value, u.value)))

open(lower, upper, overflow_checks) ==
    LET l == plus_one(lower, overflow_checks)
    IN  IF l.panicked THEN Panicked ELSE Returned(Some(Segment(l.value, upper)))

closed(lower, upper, overflow_checks) ==
    LET u == plus_one(upper, overflow_checks)
    IN  IF u.panicked THEN Panicked ELSE Returned(Some(Segment(lower, u.value)))

open_closed(lower, upper, overflow_checks) ==
    LET l == plus_one(lower, overflow_checks)
        u == plus_one(upper, overflow_checks)
    IN  IF l.panicked \/ u.panicked THEN Panicked
        ELSE Returned(Some(Segment(l.value, u.value)))

at_most(value, overflow_checks) ==
    LET u == plus_one(value, overflow_checks)
    IN  IF u.panicked THEN Panicked ELSE Returned(Some(Segment(0, u.value)))

greater_than(value, overflow_checks) ==
    LET l == plus_one(value, overflow_checks)
    IN  IF l.panicked THEN Panicked ELSE Returned(Some(Segment(l.value, KeyMax)))

\* a call of one of the constructors that take one key
ConstructOne(ctor, value, overflow_checks) ==
    /\ Running
    /\ LET r == CASE ctor = "singleton" -> singleton(value, overflow_checks)
                  [] ctor = "at_most" -> at_most(value, overflow_checks)
                  [] ctor = "greater_than" -> greater_than(value, overflow_checks)
       IN  op' = [name |-> ctor, incremented |-> {value},
                  overflow_checks |-> overflow_checks,
                  result |-> r.result, panicked |-> r.panicked]
    /\ UNCHANGED <<root, prev, it, out>>

\* a call of one of the constructors that take two keys
ConstructTwo(ctor, lower, upper, overflow_checks) ==
    /\ Running
    /\ LET r == CASE ctor = "open" -> open(lower, upper, overflow_checks)
                  [] ctor = "closed" -> closed(lower, upper, overflow_checks)
                  [] ctor = "open_closed" -> open_closed(lower, upper, overflow_checks)
       IN  op' = [name |-> ctor, lower |-> lower, upper |-> upper,
                  incremented |-> CASE ctor = "open" -> {lower}
                                    [] ctor = "closed" -> {upper}
                                    [] ctor = "open_closed" -> {lower, upper},
                  overflow_checks |-> overflow_checks,
                  result |-> r.result, panicked |-> r.panicked]
    /\ UNCHANGED <<root, prev, it, out>>

\* a call of a.intersection(b), and of b.intersection(a)
Intersect(a, b) ==
    /\ Running
    /\ op' = [name |-> "intersection", a |-> a, b |-> b,
              result |-> intersection(a, b), reverse |-> intersection(b, a),
              panicked |-> FALSE]
    /\ UNCHANGED <<root, prev, it, out>>

NextSegment ==
    \/ \E ctor \in {"singleton", "at_most", "greater_than"}, value \in BoundedKeys,
          overflow_checks \in BOOLEAN : ConstructOne(ctor, value, overflow_checks)
    \/ \E ctor \in {"open", "closed", "open_closed"}, lower \in BoundedKeys,
          upper \in BoundedKeys, overflow_checks \in BOOLEAN :
            ConstructTwo(ctor, lower, upper, overflow_checks)
    \/ \E a \in Segments, b \in Segments : Intersect(a, b)

\* the Segment type on its own: constructors and intersection
SpecSegment == Init /\ [][NextSegment]_vars

Constructors == {"singleton", "open", "closed", "open_closed", "at_most", "greater_than"}

\* C23: a constructor whose incremented bound is the key type's maximum fails
\* with an overflow error and never returns a segment whose bound has wrapped
C23_ConstructorsFailLoudly ==
    (op.name \in Constructors /\ KeyMax \in op.incremented) =>
        op.panicked /\ ~op.result.some

\* C24: a.intersection(b) is None exactly when a and b are not connected;
\* otherwise it is Some([max of the lower bounds, min of the upper bounds)),
\* which is zero-width when they merely touch, is enclosed by both a and b,
\* and equals b.intersection(a)
C24_Intersection ==
    op.name = "intersection" =>
        LET a == op.a
            b == op.b
            lo == IF a.lower > b.lower THEN a.lower ELSE b.lower
            hi == IF a.upper < b.upper THEN a.upper ELSE b.upper
        IN  /\ ~op.result.some <=> (a.lower > b.upper \/ b.lower > a.upper)
            /\ op.result.some =>
                /\ op.result.v = Segment(lo, hi)
                /\ op.result.v.lower <= op.result.v.upper
                /\ (a.upper = b.lower \/ b.upper = a.lower) => is_empty(op.result.v)
                /\ encloses(a, op.result.v) /\ encloses(b, op.result.v)
            /\ op.reverse = op.result

\* two non-empty segments that merely touch were intersected
C24_Witness ==
    /\ op.name = "intersection"
    /\ ~is_empty(op.a) /\ ~is_empty(op.b) /\ op.a.upper = op.b.lower
    /\ op.result = Some(Segment(op.a.upper, op.a.upper))

\* the stored entries of t that have the point p strictly inside
Around(t, p) == {e \in Stored(t) : e[1].lower < p /\ p < e[1].upper}

\* the two halves of the entry e around the point p, with e's value
Halves(e, p) == {<<Segment(e[1].lower, p), e[2]>>, <<Segment(p, e[1].upper), e[2]>>}

\* C25: remove([p,p)) with p strictly inside a stored segment S splits S into
\* [S.lower, p) and [p, S.upper), both with S's value, and changes no other
\* entry
C25_EmptyRemoveSplits ==
    (op.name = "remove" /\ is_empty(op.segment) /\ Around(prev, op.segment.lower) # {}) =>
        /\ ~op.panicked
        /\ \E e \in Around(prev, op.segment.lower) :
            /\ Stored(root) = (Stored(prev) \ {e}) \cup Halves(e, op.segment.lower)
            /\ Size(root) = Size(prev) + 1

\* the entry x comes immediately before the entry y in the list of entries
NextTo(entries, x, y) ==
    \E i \in 1..(Len(entries) - 1) : entries[i] = x /\ entries[i + 1] = y

\* C26: update_entry([p,p), f) with p strictly inside a stored segment S calls
\* f once, with ([p,p), Some(S.value)), splits S into [S.lower, p) and
\* [p, S.upper) with S's value, and stores [p,p) -> v between them exactly
\* when f returned Some(v)
C26_EmptyUpdateSplits ==
    (/\ op.name \in {"update", "update_entry"} /\ is_empty(op.segment)
     /\ Around(prev, op.segment.lower) # {}) =>
        /\ ~op.panicked
        /\ \E e \in Around(prev, op.segment.lower) :
            LET p == op.segment.lower
                nv == call(op.f, op.segment, Some(e[2]))
                lo == <<Segment(e[1].lower, p), e[2]>>
                hi == <<Segment(p, e[1].upper), e[2]>>
            IN  /\ op.calls = << <<op.segment, Some(e[2])>> >>
                /\ Stored(root) = (Stored(prev) \ {e}) \cup {lo, hi}
                                    \cup (IF nv.some THEN {<<op.segment, nv.v>>} ELSE {})
                /\ Size(root) = Size(prev) + (IF nv.some THEN 2 ELSE 1)
                /\ IF nv.some
                   THEN /\ NextTo(Entries(root), lo, <<op.segment, nv.v>>)
                        /\ NextTo(Entries(root), <<op.segment, nv.v>>, hi)
                   ELSE NextTo(Entries(root), lo, hi)

\* ------------------------------------------------------- maps built first
\* the largest map built before the calls of SpecBuilt
MaxBuilt == 4

\* entries that can be inserted together in any order: the unit and the
\* zero-width segments, each with one value
Chain ==
    {<<s, s.lower % (MaxValue + 1)>> : s \in {x \in Segments : x.upper - x.lower <= 1}}

\* the sequences of n different entries of the chain
RECURSIVE Arrangements(_)
Arrangements(n) ==
    IF n = 0 THEN {<< >>}
    ELSE {Append(p, e) : p \in Arrangements(n - 1), e \in Chain} \ 
         {Append(p, p[i]) : p \in Arrangements(n - 1), i \in 1..(n - 1)}

\* the maps that up to MaxBuilt inserts build
BuiltTrees ==
    UNION {{Build(p, n).node : p \in Arrangements(n)} : n \in 0..MaxBuilt}

\* IntervalMap::new followed by up to MaxBuilt accepted inserts
InitBuilt ==
    /\ root \in BuiltTrees
    /\ prev = root
    /\ op = NoCall
    /\ it = None
    /\ out = << >>

\* one call on the built map
NextBuilt ==
    \/ \E s \in Segments : RemoveCall(s)
    \/ \E s \in Segments, f \in ValueFns : UpdateCall(s, f)
    \/ \E s \in Segments, f \in EntryFns : UpdateEntryCall(s, f)

\* one remove, update or update_entry on a map of up to MaxBuilt entries
SpecBuilt == InitBuilt /\ [][NextBuilt]_vars

\* the nodes of a tree
RECURSIVE Nodes(_)
Nodes(t) == IF t.some THEN {t.v} \cup Nodes(t.v.left) \cup Nodes(t.v.right) ELSE {}

\* excising the node n keeps the other entries in order; with two children
\* the minimum of the right subtree takes its place, over the old left subtree
\* and the rest of the right subtree
ExciseKeeps(n) ==
    /\ InOrder(excise(n)) = InOrder(n.left) \o InOrder(n.right)
    /\ (n.left.some /\ n.right.some) =>
        /\ excise(n).some
        /\ excise(n).v.segment = min_node(n.right.v).segment
        /\ excise(n).v.value = min_node(n.right.v).value
        /\ excise(n).v.left = n.left
        /\ InOrder(excise(n).v.right) = Tail(InOrder(n.right))
    /\ (n.left.some /\ ~n.right.some) => excise(n) = n.left
    /\ (~n.left.some /\ n.right.some) => excise(n) = n.right
    /\ (~n.left.some /\ ~n.right.some) => excise(n) = None

\* remove_min_node returns the leftmost node and the other nodes, in order
RemoveMinKeeps(n) ==
    /\ remove_min_node(n)[2].segment = min_node(n).segment
    /\ remove_min_node(n)[2].value = min_node(n).value
    /\ InOrder(remove_min_node(n)[1]) = Tail(InOrder(Some(n)))

\* C27: excising a node keeps every other entry and the order; remove_min_node
\* returns the leftmost node and a remainder with exactly the other nodes; so
\* remove(S) of a stored non-empty segment S leaves the other entries, in order
C27_ExciseKeepsOthers ==
    /\ Running => \A n \in Nodes(root) : ExciseKeeps(n) /\ RemoveMinKeeps(n)
    /\ (/\ op.name = "remove" /\ ~op.panicked /\ ~is_empty(op.segment)
        /\ IsBST(prev) /\ PairwiseDisjoint(prev)) =>
            \A e \in Stored(prev) :
                Identical(e[1], op.segment) => InOrder(root) = Without(InOrder(prev), e)

\* ------------------------------------------------------------ termination
Width(s) == s.upper - s.lower

\* "if left exists, recurse" / "if right exists, recurse": the call on a child
child_call(child, segment) == IF child.some THEN {<<child.v, segment>>} ELSE {}

\* "if result exists, do plain remove": the call on what was built so far
result_call(r, segment) ==
    IF ~r.panicked /\ r.result.some THEN {<<r.result.v, segment>>} ELSE {}

\* the recursive calls of remove as they would be if the rest of the target
\* were handed on whole instead of cut down to what is left of it
remove_calls_whole(self, segment) ==
    IF ~is_empty(segment) /\ intersection(segment, self.segment).some
       /\ ~is_empty(intersection(segment, self.segment).v)
    THEN LET i == intersection(segment, self.segment).v
             r0 == Returned(excise(self))
             r1 == IF segment.lower < i.lower
                   THEN then_remove(r0, Segment(segment.lower, i.lower))
                   ELSE IF self.segment.lower < i.lower
                   THEN then_insert(r0, Segment(self.segment.lower, i.lower), self.value)
                   ELSE r0
         IN  (IF segment.lower < i.lower THEN result_call(r0, segment) ELSE {})
             \cup (IF segment.upper > i.upper THEN result_call(r1, segment) ELSE {})
    ELSE {}

\* the recursive calls that one call of remove makes itself: <<node, segment>>
remove_calls(self, segment) ==
    IF is_empty(segment)
    THEN IF encloses(self.segment, segment)
         THEN IF (segment.lower = self.segment.lower) /\ (segment.upper = self.segment.upper)
              THEN {}
              ELSE IF segment.lower = self.segment.lower
              THEN child_call(self.left, segment)
              ELSE IF segment.upper = self.segment.upper
              THEN child_call(self.right, segment)
              ELSE {}
         ELSE IF segment.upper < self.segment.lower
         THEN child_call(self.left, segment)
         ELSE child_call(self.right, segment)
    ELSE IF intersection(segment, self.segment).some
    THEN LET i == intersection(segment, self.segment).v
         IN  IF is_empty(i)
             THEN IF segment.lower = self.segment.upper
                  THEN child_call(self.right, segment)
                  ELSE child_call(self.left, segment)
             ELSE LET r0 == Returned(excise(self))
                      r1 == IF segment.lower < i.lower
                            THEN then_remove(r0, Segment(segment.lower, i.lower))
                            ELSE IF self.segment.lower < i.lower
                            THEN then_insert(r0, Segment(self.segment.lower, i.lower), self.value)
                            ELSE r0
                  IN  (IF segment.lower < i.lower
                       THEN result_call(r0, Segment(segment.lower, i.lower)) ELSE {})
                      \cup (IF segment.upper > i.upper
                            THEN result_call(r1, Segment(i.upper, segment.upper)) ELSE {})
    ELSE IF segment.lower > self.segment.upper
    THEN child_call(self.right, segment)
    ELSE child_call(self.left, segment)

\* the recursive calls that one call of update_entry makes itself
update_entry_calls(self, segment, f) ==
    IF is_empty(segment)
    THEN IF encloses(self.segment, segment)
         THEN IF (segment.lower = self.segment.lower) /\ (segment.upper = self.segment.upper)
              THEN {}
              ELSE IF segment.lower = self.segment.lower
              THEN child_call(self.left, segment)
              ELSE IF segment.upper = self.segment.upper
              THEN child_call(self.right, segment)
              ELSE {}
         ELSE IF segment.upper < self.segment.lower
         THEN child_call(self.left, segment)
         ELSE child_call(self.right, segment)
    ELSE IF intersection(segment, self.segment).some
    THEN LET i == intersection(segment, self.segment).v
         IN  IF is_empty(i)
             THEN IF segment.lower = self.segment.upper
                  THEN child_call(self.right, segment)
                  ELSE child_call(self.left, segment)
             ELSE LET r0 == Updated(excise(self), << >>)
                      r1 == then_call_insert(r0, f, i, Some(self.value))
                      r2 == IF segment.lower < i.lower
                            THEN then_update(r1, Segment(segment.lower, i.lower), f)
                            ELSE IF self.segment.lower < i.lower
                            THEN then_insert_u(r1, Segment(self.segment.lower, i.lower), self.value)
                            ELSE r1
                  IN  (IF segment.lower < i.lower
                       THEN result_call(r1, Segment(segment.lower, i.lower)) ELSE {})
                      \cup (IF segment.upper > i.upper
                            THEN result_call(r2, Segment(i.upper, segment.upper)) ELSE {})
    ELSE IF segment.lower > self.segment.upper
    THEN child_call(self.right, segment)
    ELSE child_call(self.left, segment)

RECURSIVE remove_trace(_, _)
\* every call of remove that remove(self, segment) leads to, itself included
remove_trace(self, segment) ==
    {<<self, segment>>}
    \cup UNION {remove_trace(c[1], c[2]) : c \in remove_calls(self, segment)}

RECURSIVE update_entry_trace(_, _, _)
update_entry_trace(self, segment, f) ==
    {<<self, segment>>}
    \cup UNION {update_entry_trace(c[1], c[2], f) : c \in update_entry_calls(self, segment, f)}

\* the callee works on a strictly smaller remainder of the segment, or on the
\* same segment and a strictly smaller tree
Smaller(callee, caller) ==
    \/ Width(callee[2]) < Width(caller[2])
    \/ /\ callee[2] = caller[2]
       /\ Size(Some(callee[1])) < Size(Some(caller[1]))

\* the calls made by the map-level call that produced this state
Trace ==
    IF ~prev.some THEN {}
    ELSE IF op.name = "remove" THEN remove_trace(prev.v, op.segment)
    ELSE IF op.name \in {"update", "update_entry"}
    THEN update_entry_trace(prev.v, op.segment, op.f)
    ELSE {}

DirectCalls(c) ==
    IF op.name = "remove" THEN remove_calls(c[1], c[2])
    ELSE update_entry_calls(c[1], c[2], op.f)

\* C28: remove(T) and update_entry(T, f) terminate on every reachable tree:
\* the calls they lead to are finitely many, and every recursive call works on
\* a strictly smaller remainder of T or, with the same segment, on a strictly
\* smaller subtree, zero-width touches and zero-width segments included
C28_Terminates ==
    /\ IsFiniteSet(Trace)
    /\ \A c \in Trace : \A d \in DirectCalls(c) : Smaller(d, c)

\* a call whose T only touches the root's segment, at a zero-width
\* intersection, recursed into a child, and further down a call went on with
\* a smaller remainder of T on a tree that was not smaller
C28_Witness ==
    /\ op.name \in {"remove", "update", "update_entry"} /\ ~op.panicked
    /\ prev.some
    /\ intersection(op.segment, prev.v.segment).some
    /\ is_empty(intersection(op.segment, prev.v.segment).v)
    /\ DirectCalls(<<prev.v, op.segment>>) # {}
    /\ \E c \in Trace : \E d \in DirectCalls(c) :
        Width(d[2]) < Width(c[2]) /\ Size(Some(d[1])) >= Size(Some(c[1]))

\* C29: lookup and iteration agree on every reachable map: for every entry
\* (S, v) that iteration yields with S non-empty and every key k of S,
\* get_entry(k) returns (S, v)
C29_LookupAgreesWithIteration ==
    Running =>
        LET e == Entries(root)
        IN  \A i \in 1..Len(e) : \A k \in Keys :
                (~is_empty(e[i][1]) /\ contains(e[i][1], k)) =>
                    map_get_entry(root, k) = Some(e[i])

\* the stored zero-width entries lying strictly inside a segment
InsideZeroWidth(t, seg) ==
    {s \in StoredSegments(t) : is_empty(s) /\ seg.lower < s.lower /\ s.lower < seg.upper}

\* C30: a stored zero-width entry [p,p) strictly inside T does not stop
\* remove(T) or update(T, f) from processing the rest of T: after remove(T)
\* neither a zero-width entry inside T nor any entry that overlaps T remains,
\* and after update(T, |_| Some(v)) every key of T reads v
C30_ZeroWidthInsideDoesNotStop ==
    (~op.panicked /\ op.name \in {"remove", "update"}
     /\ InsideZeroWidth(prev, op.segment) # {}) =>
        /\ op.name = "remove" =>
            \A s \in StoredSegments(root) :
                /\ ~OverlapsPositive(s, op.segment)
                /\ s \notin InsideZeroWidth(prev, op.segment)
        /\ (op.name = "update" /\ IsConstSome(op.f)) =>
            \A k \in Keys : contains(op.segment, k) =>
                map_get(root, k) = op.f.value[None]

====
